---- MODULE Spec2Model ----
(***************************************************************************)
(* Model of the two telegraf input plugins of this repository:             *)
(*   plugins/inputs/k30_reader/k30_reader.go  (K30: CO2 over gatttool)      *)
(*   plugins/inputs/pine_64/pine_64.go        (Batt: sysfs battery files)   *)
(*                                                                         *)
(* Byte strings that the code splits (command output, file text, file      *)
(* paths) are sequences of one-character strings; a run of bytes that holds *)
(* no separator the code looks for may be written as one element           *)
(* ("Charging", "sys"), and a vertical tab or a non-ASCII rune is the       *)
(* element naming its code point ("U+000B", "U+00A0").  Strings the code   *)
(* only copies and compares (configuration values, environment values)     *)
(* are TLA+ strings.                                                       *)
(*                                                                         *)
(* The two plugins are separate telegraf inputs that share no state; a     *)
(* behaviour follows one plugin instance (collector) through its cycles.   *)
(***************************************************************************)
EXTENDS Integers, Sequences, FiniteSets, TLC

VARIABLES
    collector,  \* which input this instance is: "k30_reader" or "pine_64"
    config,     \* K30: the toml values the struct was loaded with
    ns,         \* K30: the struct fields CMD, ADDR, HANDLE, FLAGS
    batt,       \* Batt: the struct fields BATSTAT .. BATHEAL (file paths)
    env,        \* the process environment (os.Getenv), "" when unset
    pc,         \* position of the running Gather, "idle" between cycles
    cycles,     \* Gather calls started so far
    built_cmd,  \* K30.Gather: the command line handed to exe_cmd
    wg,         \* K30.Gather: the WaitGroup counter
    doneCalls,  \* calls of wg.Done in the current exe_cmd invocation
    ctxErr,     \* exe_cmd: ctx.Err()
    child,      \* exe_cmd: the child process
    out,        \* exe_cmd: out of Output()
    err,        \* exe_cmd: err of Output()
    k30,        \* K30.Gather: bytes returned by exe_cmd
    k30err,     \* K30.Gather: error returned by exe_cmd
    i,          \* Batt.Gather: loop index (1-based)
    metrics,    \* Batt.Gather: the metrics map
    s,          \* Batt.Gather: text of the file read last
    stat,       \* Batt.Gather: final path segment of the file read last
    accCalls,   \* acc.AddFields calls made in the current cycle
    accFields,  \* the last AddFields call of the current cycle, <<>> if none
    ret         \* what the last Gather returned, "none" while none has

vars == <<collector, config, ns, batt, env, pc, cycles, built_cmd, wg,
          doneCalls, ctxErr, child, out, err, k30, k30err, i, metrics, s,
          stat, accCalls, accFields, ret>>

k30vars == <<built_cmd, wg, doneCalls, ctxErr, child, out, err, k30, k30err>>
battvars == <<i, metrics, s, stat>>

----------------------------------------------------------------------------
(* Bounds *)

MaxCycles == 2
MaxTokens == 5

----------------------------------------------------------------------------
(* Constants of k30_reader.go *)

GATTTOOL == "/usr/bin/gatttool"
MACADDR == "C1:C4:E4:05:14:95"
VARHANDLE == "0x000e"
GATTFLAGS == "-t random --char-read"

GATT_TOOL == "GATTTOOL"
MAC_ADDR == "MACADDR"
VAR_HANDLE == "VAR_HANDLE"
GATT_FLAGS == "GATTFLAGS"

colonByte == ":"

K30Fields == {"CMD", "ADDR", "HANDLE", "FLAGS"}
EnvNames == {GATT_TOOL, MAC_ADDR, VAR_HANDLE, GATT_FLAGS}

NoErr == "nil"
NilBytes == <<>>

----------------------------------------------------------------------------
(* Constants of pine_64.go *)

Path(segs) == [k \in 1..(2 * Len(segs)) |-> IF k % 2 = 1 THEN "/" ELSE segs[k \div 2]]

BATTSTATUS == Path(<<"sys", "class", "power_supply", "battery", "status">>)
BATTVOLTAGE == Path(<<"sys", "class", "power_supply", "battery", "voltage_now">>)
BATTCURRENT == Path(<<"sys", "class", "power_supply", "battery", "current_now">>)
BATTCAPACITY == Path(<<"sys", "class", "power_supply", "battery", "capacity">>)
BATTHEALTH == Path(<<"sys", "class", "power_supply", "battery", "health">>)

\* reflect.ValueOf(ns).Elem(): the struct's fields in declaration order
BattFields == <<"BATSTAT", "BATVOLT", "BATCUR", "BATCAP", "BATHEAL">>

----------------------------------------------------------------------------
(* strings / bytes helpers *)

\* strings.Split / bytes.Split with a one-byte separator
RECURSIVE Split(_, _)
Split(str, sep) ==
    IF \A k \in DOMAIN str : str[k] # sep
    THEN <<str>>
    ELSE LET k == CHOOSE j \in DOMAIN str :
                      str[j] = sep /\ \A h \in 1..(j - 1) : str[h] # sep
         IN <<SubSeq(str, 1, k - 1)>> \o Split(SubSeq(str, k + 1, Len(str)), sep)

\* the vertical tab (a byte without a TLA+ escape) and the non-ASCII white
\* space of Latin-1, each one element named by its code point
VT == "U+000B"
NEL == "U+0085"
NBSP == "U+00A0"

\* the other runes of unicode.IsSpace (Z category and property Pattern_White_Space)
UnicodeSpaces ==
    { "U+1680", "U+2000", "U+2001", "U+2002", "U+2003", "U+2004", "U+2005",
      "U+2006", "U+2007", "U+2008", "U+2009", "U+200A", "U+2028", "U+2029",
      "U+202F", "U+205F", "U+3000" }

\* the white space of bytes.Fields: asciiSpace ('\t', '\n', '\v', '\f', '\r',
\* ' ') and, in an input with non-ASCII bytes, unicode.IsSpace of each rune
IsSpace(c) ==
    c \in {" ", "\n", "\t", "\r", "\f", VT, NEL, NBSP} \cup UnicodeSpaces

\* bytes.Fields: the maximal runs of non-space bytes
RECURSIVE Fields(_)
Fields(str) ==
    IF str = <<>> THEN <<>>
    ELSE IF IsSpace(str[1]) THEN Fields(Tail(str))
    ELSE LET stops == {j \in DOMAIN str : IsSpace(str[j])}
             end == IF stops = {} THEN Len(str) + 1
                    ELSE CHOOSE j \in stops : \A h \in stops : j <= h
         IN <<SubSeq(str, 1, end - 1)>> \o Fields(SubSeq(str, end, Len(str)))

\* strings.Trim(str, cut): drop leading and trailing bytes equal to cut
RECURSIVE TrimLeft(_, _)
TrimLeft(str, cut) ==
    IF str # <<>> /\ str[1] = cut THEN TrimLeft(Tail(str), cut) ELSE str

RECURSIVE TrimRight(_, _)
TrimRight(str, cut) ==
    IF str # <<>> /\ str[Len(str)] = cut
    THEN TrimRight(SubSeq(str, 1, Len(str) - 1), cut) ELSE str

Trim(str, cut) == TrimRight(TrimLeft(str, cut), cut)

HexDigits == <<"0", "1", "2", "3", "4", "5", "6", "7", "8", "9",
               "a", "b", "c", "d", "e", "f">>
HexUpper == <<"0", "1", "2", "3", "4", "5", "6", "7", "8", "9",
              "A", "B", "C", "D", "E", "F">>

IsHex(c) == \E k \in 1..16 : HexDigits[k] = c \/ HexUpper[k] = c
HexVal(c) == (CHOOSE k \in 1..16 : HexDigits[k] = c \/ HexUpper[k] = c) - 1

\* hex.DecodeString: an error for an odd length or a non-hex byte
HexDecodeString(tok) ==
    IF Len(tok) % 2 = 1 \/ \E k \in DOMAIN tok : ~IsHex(tok[k])
    THEN [err |-> TRUE, data |-> <<>>]
    ELSE [err |-> FALSE,
          data |-> [k \in 1..(Len(tok) \div 2) |->
                       16 * HexVal(tok[2 * k - 1]) + HexVal(tok[2 * k])]]

----------------------------------------------------------------------------
(* k30_reader.go *)

\* binary.LittleEndian.Uint32 followed by math.Float32frombits.  The float32
\* is kept as its 32-bit pattern, in two 16-bit words (hi * 65536 + lo):
\* a pattern of 0x80000000 and above does not fit TLC's 32-bit integers.
Float32frombytes(bytes) ==
    [lo |-> bytes[1] + 256 * bytes[2], hi |-> bytes[3] + 256 * bytes[4]]

Getenv(name) == IF name \in DOMAIN env THEN env[name] ELSE ""

\* proc(env, path): the environment's value, else the NAME of the variable
\* (the path argument is never used)
proc(name, path) == IF Getenv(name) # "" THEN Getenv(name) ELSE name

EnvOf(f) ==
    CASE f = "CMD" -> GATT_TOOL
      [] f = "ADDR" -> MAC_ADDR
      [] f = "HANDLE" -> VAR_HANDLE
      [] f = "FLAGS" -> GATT_FLAGS

\* K30.loadPath: fills the struct's empty fields, and only those
loadPath(n) ==
    [f \in K30Fields |-> IF n[f] = "" THEN proc(EnvOf(f), "") ELSE n[f]]

\* built_cmd of K30.Gather, the concatenated pieces in order
BuildCmd(n) == <<n.CMD, " -b ", n.ADDR, " ", n.FLAGS, " --handle=", n.HANDLE>>

\* exe_cmd without the return in the timeout branch: falls through to the
\* second wg.Done
exe_cmd_fallthrough(cerr, o, e) ==
    IF cerr = "DeadlineExceeded"
    THEN [out |-> o, err |-> e, done |-> 2]
    ELSE [out |-> o, err |-> e, done |-> 1]

\* exe_cmd from the ctx.Err() check on: what it returns and how many times
\* it calls wg.Done
exe_cmd(cerr, o, e) ==
    IF cerr = "DeadlineExceeded"
    THEN [out |-> NilBytes, err |-> e, done |-> 1]
    ELSE [out |-> o, err |-> e, done |-> 1]

\* the for loop of gatherk30, x counted from 1: hex.DecodeString of token x,
\* panic(err) on failure, then reading[x] = data[0], which panics with an
\* index out of range from the fifth token on
RECURSIVE DecodeLoop(_, _, _)
DecodeLoop(fd, x, reading) ==
    IF x > Len(fd) THEN [panic |-> FALSE, reading |-> reading]
    ELSE LET d == HexDecodeString(fd[x])
         IN IF d.err THEN [panic |-> TRUE, reading |-> reading]
            ELSE IF x > 4 \/ Len(d.data) = 0
                 THEN [panic |-> TRUE, reading |-> reading]
                 ELSE DecodeLoop(fd, x + 1, [reading EXCEPT ![x] = d.data[1]])

\* K30.gatherk30: panics, or makes one AddFields call and returns nil
gatherk30(data) ==
    LET result == Split(data, colonByte)
    IN IF Len(result) < 2 THEN [panic |-> TRUE, calls |-> <<>>]
       ELSE LET fd == Fields(result[2])
                l == DecodeLoop(fd, 1, <<0, 0, 0, 0>>)
            IN IF l.panic THEN [panic |-> TRUE, calls |-> <<>>]
               ELSE [panic |-> FALSE,
                     calls |-> <<[measurement |-> "k30_reader",
                                  fields |-> [name \in {"co2"} |->
                                                 Float32frombytes(l.reading)],
                                  tags |-> [name \in {"sensor"} |-> "k30_co2"]]>>]

\* K30.Gather after exe_cmd: return err, or go on to gatherk30
K30GatherRest(data, e) ==
    IF e # NoErr THEN [panic |-> FALSE, ret |-> e, calls |-> <<>>]
    ELSE LET r == gatherk30(data)
         IN [panic |-> r.panic, ret |-> NoErr, calls |-> r.calls]

----------------------------------------------------------------------------
(* pine_64.go *)

Digits == <<"0", "1", "2", "3", "4", "5", "6", "7", "8", "9">>
IsDigit(c) == \E k \in 1..10 : Digits[k] = c
DigitVal(c) == (CHOOSE k \in 1..10 : Digits[k] = c) - 1

UpperCase == <<"A", "B", "C", "D", "E", "F", "G", "H", "I", "J", "K", "L", "M",
               "N", "O", "P", "Q", "R", "S", "T", "U", "V", "W", "X", "Y", "Z">>
LowerCase == <<"a", "b", "c", "d", "e", "f", "g", "h", "i", "j", "k", "l", "m",
               "n", "o", "p", "q", "r", "s", "t", "u", "v", "w", "x", "y", "z">>

\* lower(c) of strconv
Lower(c) ==
    IF \E k \in 1..26 : UpperCase[k] = c
    THEN LowerCase[CHOOSE k \in 1..26 : UpperCase[k] = c]
    ELSE c

\* a digit of the mantissa in the given base, and its value
IsBaseDigit(c, base) == IsDigit(c) \/ (base = 16 /\ IsHex(c))
BaseDigitVal(c) == HexVal(c)

(* Natural numbers of any size, as their decimal digits, least significant *)
(* first and without leading zeros (zero is <<>>).                          *)

\* the digits of a small number
RECURSIVE SmallDigits(_)
SmallDigits(c) == IF c = 0 THEN <<>> ELSE <<c % 10>> \o SmallDigits(c \div 10)

\* the Len(n) low digits of n * m + c and what is carried out of them, the
\* low half of the digits before the high half
RECURSIVE MulCarry(_, _, _)
MulCarry(n, m, c) ==
    IF n = <<>> THEN [digits |-> <<>>, carry |-> c]
    ELSE IF Len(n) = 1
         THEN [digits |-> <<(n[1] * m + c) % 10>>, carry |-> (n[1] * m + c) \div 10]
    ELSE LET h == Len(n) \div 2
             lo == MulCarry(SubSeq(n, 1, h), m, c)
             hi == MulCarry(SubSeq(n, h + 1, Len(n)), m, lo.carry)
         IN IF Len(lo.digits) = h    \* always: the low half is worked out first
            THEN [digits |-> lo.digits \o hi.digits, carry |-> hi.carry]
            ELSE [digits |-> <<>>, carry |-> 0]

\* n * m + c, for small m and c
MulAdd(n, m, c) ==
    LET r == MulCarry(n, m, c) IN r.digits \o SmallDigits(r.carry)

RECURSIVE DropZeros(_)
DropZeros(n) ==
    IF n # <<>> /\ n[Len(n)] = 0 THEN DropZeros(SubSeq(n, 1, Len(n) - 1)) ELSE n

\* the number whose digits in the base are ds (most significant first)
RECURSIVE FromDigits(_, _)
FromDigits(ds, base) ==
    IF ds = <<>> THEN <<>>
    ELSE DropZeros(MulAdd(FromDigits(SubSeq(ds, 1, Len(ds) - 1), base), base,
                          ds[Len(ds)]))

\* m^k for small m and k
RECURSIVE SmallPow(_, _)
SmallPow(m, k) == IF k = 0 THEN 1 ELSE m * SmallPow(m, k - 1)

\* how many factors m are taken at a time (2^15 and 5^6 are small numbers)
Chunk(m) == IF m = 2 THEN 15 ELSE 6

\* n * m^k for m = 2 or 5, one half of the factors after the other
RECURSIVE MulPow(_, _, _)
MulPow(n, m, k) ==
    IF k = 0 THEN n
    ELSE IF k <= Chunk(m) THEN MulAdd(n, SmallPow(m, k), 0)
    ELSE LET half == MulPow(n, m, k \div 2)
         IN IF Len(half) >= 0    \* always: the first half is worked out first
            THEN MulPow(half, m, k - k \div 2)
            ELSE <<>>

\* the Len(n) digits of (r * 10^Len(n) + n) \div m and the remainder, for
\* small m and r < m, the high half of the digits before the low half
RECURSIVE DivCarry(_, _, _)
DivCarry(n, m, r) ==
    IF n = <<>> THEN [digits |-> <<>>, rem |-> r]
    ELSE IF Len(n) = 1
         THEN [digits |-> <<(r * 10 + n[1]) \div m>>, rem |-> (r * 10 + n[1]) % m]
    ELSE LET h == Len(n) \div 2
             hi == DivCarry(SubSeq(n, h + 1, Len(n)), m, r)
             lo == DivCarry(SubSeq(n, 1, h), m, hi.rem)
         IN IF Len(hi.digits) = Len(n) - h   \* always: the high half comes first
            THEN [digits |-> lo.digits \o hi.digits, rem |-> lo.rem]
            ELSE [digits |-> <<>>, rem |-> 0]

\* n \div m for small m, and whether anything is left over (sticky)
DivSmall(n, m) ==
    LET r == DivCarry(n, m, 0)
    IN [q |-> DropZeros(r.digits), sticky |-> r.rem # 0]

\* n \div m^k for m = 2 or 5, and whether anything is left over
RECURSIVE DivPow(_, _, _)
DivPow(n, m, k) ==
    IF k = 0 THEN [q |-> n, sticky |-> FALSE]
    ELSE IF k <= Chunk(m) THEN DivSmall(n, SmallPow(m, k))
    ELSE LET first == DivPow(n, m, k \div 2)
             rest == DivPow(first.q, m, k - k \div 2)
         IN IF Len(first.q) >= 0   \* always: the first half is worked out first
            THEN [q |-> rest.q, sticky |-> first.sticky \/ rest.sticky]
            ELSE [q |-> <<>>, sticky |-> FALSE]

\* a + b + c, for a small c
RECURSIVE BigAdd(_, _, _)
BigAdd(a, b, c) ==
    IF a = <<>> /\ b = <<>> THEN SmallDigits(c)
    ELSE IF a = <<>> THEN <<(b[1] + c) % 10>> \o BigAdd(a, Tail(b), (b[1] + c) \div 10)
    ELSE IF b = <<>> THEN <<(a[1] + c) % 10>> \o BigAdd(Tail(a), b, (a[1] + c) \div 10)
    ELSE <<(a[1] + b[1] + c) % 10>>
             \o BigAdd(Tail(a), Tail(b), (a[1] + b[1] + c) \div 10)

\* a < b
BigLess(a, b) ==
    IF Len(a) # Len(b) THEN Len(a) < Len(b)
    ELSE \E j \in 1..Len(a) :
             a[j] < b[j] /\ \A o \in (j + 1)..Len(a) : a[o] = b[o]

Reverse(q) == [k \in 1..Len(q) |-> q[Len(q) + 1 - k]]

(* A float64 is its sign, its mantissa mant (decimal digits, most           *)
(* significant first) and its exponent: the value is mant * 2^exp, with     *)
(* 2^52 <= mant < 2^53 and -1074 <= exp <= 971, or mant < 2^52 and          *)
(* exp = -1074 (denormal); zero has no digits.  The infinities and NaN are  *)
(* named.                                                                   *)

Two52 == FromDigits(<<4, 5, 0, 3, 5, 9, 9, 6, 2, 7, 3, 7, 0, 4, 9, 6>>, 10)
Two53 == FromDigits(<<9, 0, 0, 7, 1, 9, 9, 2, 5, 4, 7, 4, 0, 9, 9, 2>>, 10)
Two54 == FromDigits(<<1, 8, 0, 1, 4, 3, 9, 8, 5, 0, 9, 4, 8, 1, 9, 8, 4>>, 10)
MinExp == -1074
MaxExp == 971

Zero(neg) == [neg |-> neg, mant |-> <<>>, exp |-> 0]
Inf(neg) == [special |-> IF neg THEN "-Inf" ELSE "+Inf"]
NaN == [special |-> "NaN"]

IsSpecial(v) == "special" \in DOMAIN v
IsZero(v) == ~IsSpecial(v) /\ v.mant = <<>>

\* the float64 of mantissa m (at most 2^53) and exponent x, infinite past the
\* largest exponent
Pack(neg, m, x) ==
    IF m = <<>> THEN Zero(neg)
    ELSE IF m = Two53
         THEN IF x + 1 > MaxExp THEN Inf(neg)
              ELSE [neg |-> neg, mant |-> Reverse(Two52), exp |-> x + 1]
    ELSE IF x > MaxExp THEN Inf(neg)
    ELSE [neg |-> neg, mant |-> Reverse(m), exp |-> x]

\* one bit less of u: u.q is the integer part of the value over 2^(u.x),
\* u.sticky whether the value has more than that
Halve(u, d) == [q |-> d.q, sticky |-> u.sticky \/ d.sticky, x |-> u.x + 1]

\* u with bits taken off until u.q < 2^54
RECURSIVE Normalize(_)
Normalize(u) ==
    IF BigLess(u.q, Two54) THEN u ELSE Normalize(Halve(u, DivSmall(u.q, 2)))

\* round half to even: d is u.q without its last bit, d.sticky that bit
RoundHalfEven(neg, u, d) ==
    IF d.sticky /\ (u.sticky \/ (d.q # <<>> /\ d.q[1] % 2 = 1))
    THEN Pack(neg, MulAdd(d.q, 1, 1), u.x + 1)
    ELSE Pack(neg, d.q, u.x + 1)

RoundBits(neg, u) == RoundHalfEven(neg, u, DivSmall(u.q, 2))

\* the integer part of p * 2^sh / 5^n5, and whether there is more
FloorShift(p, n5, sh) ==
    IF sh >= 0 THEN DivPow(MulPow(p, 2, sh), 5, n5)
    ELSE LET a == DivPow(p, 5, n5)
             b == DivPow(a.q, 2, 0 - sh)
         IN [q |-> b.q, sticky |-> a.sticky \/ b.sticky]

At(f, x) == [q |-> f.q, sticky |-> f.sticky, x |-> x]

\* an exponent x with p * 2^k / 5^n5 >= 2^(x + 54), from the number of
\* decimal digits of p (3.3219 < log2 10, log2 5 < 2.3220); not below that of
\* the bit after the last bit of a denormal
LowExp(p, n5, k) ==
    LET x == k + ((Len(p) - 1) * 33219) \div 10000
               - (n5 * 23220 + 9999) \div 10000 - 55
    IN IF x < MinExp - 1 THEN MinExp - 1 ELSE x

RoundFrom(neg, p, n5, k, x) ==
    RoundBits(neg, Normalize(At(FloorShift(p, n5, k - x), x)))

\* the float64 nearest to p * 2^k / 5^n5, ties to the even mantissa
RoundRatio(neg, p, n5, k) ==
    IF p = <<>> THEN Zero(neg) ELSE RoundFrom(neg, p, n5, k, LowExp(p, n5, k))

\* commonPrefixLenIgnoreCase(str, prefix), prefix in lower case
RECURSIVE commonPrefixLenIgnoreCase(_, _)
commonPrefixLenIgnoreCase(str, prefix) ==
    IF str = <<>> \/ prefix = <<>> \/ Lower(str[1]) # prefix[1] THEN 0
    ELSE 1 + commonPrefixLenIgnoreCase(Tail(str), Tail(prefix))

\* special(s) of strconv: the infinities and NaN, and the bytes consumed
special(str) ==
    IF str = <<>> THEN [ok |-> FALSE, n |-> 0, v |-> NaN]
    ELSE LET signed == str[1] \in {"+", "-"}
             body == IF signed THEN Tail(str) ELSE str
             nsign == IF signed THEN 1 ELSE 0
             p == commonPrefixLenIgnoreCase(body,
                      <<"i", "n", "f", "i", "n", "i", "t", "y">>)
             n == IF 3 < p /\ p < 8 THEN 3 ELSE p
         IN IF signed \/ Lower(str[1]) = "i"
            THEN IF n = 3 \/ n = 8
                 THEN [ok |-> TRUE, n |-> nsign + n, v |-> Inf(str[1] = "-")]
                 ELSE [ok |-> FALSE, n |-> 0, v |-> NaN]
            ELSE IF Lower(str[1]) = "n"
                      /\ commonPrefixLenIgnoreCase(str, <<"n", "a", "n">>) = 3
                 THEN [ok |-> TRUE, n |-> 3, v |-> NaN]
                 ELSE [ok |-> FALSE, n |-> 0, v |-> NaN]

\* the mantissa loop of readFloat from position k: digits, one '.', and '_'
RECURSIVE ScanMantissa(_, _, _, _)
ScanMantissa(str, k, base, st) ==
    IF k > Len(str) THEN [st EXCEPT !.k = k]
    ELSE IF str[k] = "_"
         THEN ScanMantissa(str, k + 1, base, [st EXCEPT !.underscores = TRUE])
    ELSE IF str[k] = "."
         THEN IF st.sawdot THEN [st EXCEPT !.k = k]
              ELSE ScanMantissa(str, k + 1, base, [st EXCEPT !.sawdot = TRUE])
    ELSE IF IsBaseDigit(str[k], base)
         THEN ScanMantissa(str, k + 1, base,
                  [st EXCEPT !.sawdigits = TRUE,
                             !.ds = Append(@, BaseDigitVal(str[k])),
                             !.nfrac = IF st.sawdot THEN @ + 1 ELSE @])
    ELSE [st EXCEPT !.k = k]

\* the exponent loop of readFloat from position k: digits and '_', the value
\* no longer growing once it has reached 10000
RECURSIVE ScanExponent(_, _, _, _)
ScanExponent(str, k, e, underscores) ==
    IF k > Len(str) \/ ~(IsDigit(str[k]) \/ str[k] = "_")
    THEN [k |-> k, e |-> e, underscores |-> underscores]
    ELSE IF str[k] = "_" THEN ScanExponent(str, k + 1, e, TRUE)
    ELSE ScanExponent(str, k + 1,
                      IF e < 10000 THEN e * 10 + DigitVal(str[k]) ELSE e,
                      underscores)

\* underscoreOK(s) of strconv from position k: an underscore only between
\* digits (a base prefix counting as a digit); saw is "0", "_", "!" or "^"
RECURSIVE UnderscoreScan(_, _, _, _)
UnderscoreScan(str, k, hex, saw) ==
    IF k > Len(str) THEN saw # "_"
    ELSE IF IsDigit(str[k]) \/ (hex /\ IsHex(str[k]))
         THEN UnderscoreScan(str, k + 1, hex, "0")
    ELSE IF str[k] = "_"
         THEN saw = "0" /\ UnderscoreScan(str, k + 1, hex, "_")
    ELSE saw # "_" /\ UnderscoreScan(str, k + 1, hex, "!")

underscoreOK(str) ==
    LET body == IF str # <<>> /\ str[1] \in {"+", "-"} THEN Tail(str) ELSE str
        prefixed == Len(body) >= 2 /\ body[1] = "0"
                      /\ Lower(body[2]) \in {"b", "o", "x"}
    IN IF prefixed
       THEN UnderscoreScan(body, 3, Lower(body[2]) = "x", "0")
       ELSE UnderscoreScan(body, 1, FALSE, "^")

\* readFloat(s) of strconv, in the order of its steps; what it returns is
\* the sign, the base, the mantissa digits, the exponent of the base's unit
\* (10, or 2 for a hexadecimal mantissa) and the bytes consumed
readFail ==
    [ok |-> FALSE, n |-> 0, neg |-> FALSE, base |-> 10, ds |-> <<>>, exp |-> 0]

\* the end of readFloat: the underscores are checked over what was consumed
readDone(str, neg, hex, m, k, e, underscores) ==
    IF underscores /\ ~underscoreOK(SubSeq(str, 1, k - 1)) THEN readFail
    ELSE [ok |-> TRUE, n |-> k - 1, neg |-> neg,
          base |-> IF hex THEN 16 ELSE 10, ds |-> m.ds,
          exp |-> e - (IF hex THEN 4 ELSE 1) * m.nfrac]

\* the exponent digits from position k, after the exponent character and the
\* optional sign: at least one digit
readExpDigits(str, neg, hex, m, eneg, k) ==
    IF k > Len(str) \/ ~IsDigit(str[k]) THEN readFail
    ELSE LET x == ScanExponent(str, k, 0, m.underscores)
         IN readDone(str, neg, hex, m, x.k, IF eneg THEN 0 - x.e ELSE x.e,
                     x.underscores)

\* after the mantissa m: the optional exponent ('e', or 'p' which a
\* hexadecimal mantissa must have)
readExp(str, neg, hex, m) ==
    IF ~m.sawdigits THEN readFail
    ELSE IF m.k <= Len(str) /\ Lower(str[m.k]) = (IF hex THEN "p" ELSE "e")
         THEN IF m.k + 1 <= Len(str) /\ str[m.k + 1] \in {"+", "-"}
              THEN readExpDigits(str, neg, hex, m, str[m.k + 1] = "-", m.k + 2)
              ELSE readExpDigits(str, neg, hex, m, FALSE, m.k + 1)
    ELSE IF hex THEN readFail
    ELSE readDone(str, neg, hex, m, m.k, 0, m.underscores)

\* after the sign, from position k: the base prefix and the mantissa
readBase(str, neg, hex, k) ==
    readExp(str, neg, hex,
            ScanMantissa(str, IF hex THEN k + 2 ELSE k, IF hex THEN 16 ELSE 10,
                [k |-> 0, ds |-> <<>>, nfrac |-> 0, sawdot |-> FALSE,
                 sawdigits |-> FALSE, underscores |-> FALSE]))

readSigned(str, neg, k) ==
    readBase(str, neg,
             k + 2 <= Len(str) /\ str[k] = "0" /\ Lower(str[k + 1]) = "x", k)

readFloat(str) ==
    IF str = <<>> THEN readFail
    ELSE IF str[1] \in {"+", "-"} THEN readSigned(str, str[1] = "-", 2)
    ELSE readSigned(str, FALSE, 1)

\* the float64 nearest to the decimal d * 10^e: far out of range the digits
\* are not multiplied out
DecimalValue(neg, d, e) ==
    IF d = <<>> THEN Zero(neg)
    ELSE IF Len(d) - 1 + e > 310 THEN Inf(neg)
    ELSE IF Len(d) - 1 + e < -330 THEN Zero(neg)
    ELSE IF e >= 0 THEN RoundRatio(neg, MulPow(d, 5, e), 0, e)
    ELSE RoundRatio(neg, d, 0 - e, e)

\* the float64 nearest to the hexadecimal m * 2^e
HexValue(neg, m, e) ==
    IF m = <<>> THEN Zero(neg)
    ELSE IF e > 1100 THEN Inf(neg)
    ELSE IF e + 4 * Len(m) < -1200 THEN Zero(neg)
    ELSE RoundRatio(neg, m, 0, e)

\* the float64 of what readFloat has read
FloatValue(r) ==
    IF r.base = 10 THEN DecimalValue(r.neg, FromDigits(r.ds, 10), r.exp)
    ELSE HexValue(r.neg, FromDigits(r.ds, 16), r.exp)

SyntaxError ==
    [err |-> "strconv.ParseFloat: invalid syntax", v |-> Zero(FALSE)]

\* atof64: the nearest float64, an infinity being out of range
Rounded(v) ==
    IF IsSpecial(v)
    THEN [err |-> "strconv.ParseFloat: value out of range", v |-> v]
    ELSE [err |-> NoErr, v |-> v]

\* ParseFloat on what special (sp) and readFloat (r) make of str
parseFloatPrefix(str, sp, r) ==
    IF sp.ok
    THEN IF sp.n = Len(str) THEN [err |-> NoErr, v |-> sp.v] ELSE SyntaxError
    ELSE IF ~r.ok \/ r.n # Len(str) THEN SyntaxError
    ELSE Rounded(FloatValue(r))

\* strconv.ParseFloat(str, 64): the value, with err "nil", or "invalid syntax"
\* or "value out of range"
ParseFloat(str) == parseFloatPrefix(str, special(str), readFloat(str))

\* the float64 v / 10000 = v / (2^4 * 5^4)
Div10000(v) ==
    IF IsSpecial(v) \/ IsZero(v) THEN v
    ELSE RoundRatio(v.neg, Reverse(v.mant), 4, v.exp - 4)

\* the float64 nearest to 0.01 is 5764607523034235 * 2^-59; n times its
\* mantissa (5764607523034235 = 57646075 * 10^8 + 23034235)
TimesHundredth(n) ==
    BigAdd(<<0, 0, 0, 0, 0, 0, 0, 0>> \o MulAdd(n, 57646075, 0),
           MulAdd(n, 23034235, 0), 0)

\* the float64 v * 0.01
MulHundredth(v) ==
    IF IsSpecial(v) \/ IsZero(v) THEN v
    ELSE RoundRatio(v.neg, TimesHundredth(Reverse(v.mant)), 0, v.exp - 59)

\* v = (v / 10000) * 0.01, each operation rounding to float64
ScaleVoltage(v) == MulHundredth(Div10000(v))

StrVal(text) == [kind |-> "string", text |-> text]
NumVal(v) == [kind |-> "float64", value |-> v]

Put(m, key, val) ==
    [x \in DOMAIN m \cup {key} |-> IF x = key THEN val ELSE m[x]]

EmptyMap == [x \in {} |-> 0]

\* one pass of the for loop of Batt.Gather over file path f whose content
\* is b: the error returned from inside the loop, or the metrics map after it
BattIteration(m, f, b) ==
    LET str == b
        field == Split(f, "/")
        st == field[Len(field)]
    IN IF st = <<"status">> \/ st = <<"health">>
       THEN [err |-> NoErr, stat |-> st, metrics |-> Put(m, st, StrVal(str))]
       ELSE LET p == ParseFloat(Trim(str, "\n"))
                v == p.v
            IN IF p.err # NoErr
               THEN [err |-> p.err, stat |-> st, metrics |-> m]
               ELSE [err |-> NoErr, stat |-> st,
                     metrics |-> Put(m, st,
                        NumVal(IF st = <<"voltage_now">> THEN ScaleVoltage(v) ELSE v))]

\* Batt.Gather leaving the loop on an error, with the fields gathered so far
\* flushed to the accumulator first
BattAbort_flush(m, e) ==
    [ret |-> e,
     calls |-> <<[measurement |-> "battery", fields |-> m,
                  tags |-> [name \in {"sensor"} |-> "battery"]]>>]

\* Batt.Gather leaving the loop on an error: return err, nothing else
BattAbort(m, e) == [ret |-> e, calls |-> <<>>]

\* Batt.Gather after the loop: one AddFields call, return nil
BattFinish(m) ==
    [ret |-> NoErr,
     calls |-> <<[measurement |-> "battery", fields |-> m,
                  tags |-> [name \in {"sensor"} |-> "battery"]]>>]

----------------------------------------------------------------------------
(* Inputs: configurations, environment values, command outputs, file texts *)

K30Configs ==
    { [CMD |-> "", ADDR |-> "", HANDLE |-> "", FLAGS |-> ""],
      [CMD |-> "/opt/bluez/gatttool", ADDR |-> "", HANDLE |-> "", FLAGS |-> ""],
      [CMD |-> GATTTOOL, ADDR |-> MACADDR, HANDLE |-> VARHANDLE, FLAGS |-> GATTFLAGS] }

EnvValue(name) ==
    CASE name = GATT_TOOL -> "/usr/local/bin/gatttool"
      [] name = MAC_ADDR -> "AA:BB:CC:DD:EE:FF"
      [] name = VAR_HANDLE -> "0x0010"
      [] name = GATT_FLAGS -> "--char-read"

NoBattConfig ==
    [BATSTAT |-> <<>>, BATVOLT |-> <<>>, BATCUR |-> <<>>, BATCAP |-> <<>>,
     BATHEAL |-> <<>>]

BattConfigs ==
    { [BATSTAT |-> BATTSTATUS, BATVOLT |-> BATTVOLTAGE, BATCUR |-> BATTCURRENT,
       BATCAP |-> BATTCAPACITY, BATHEAL |-> BATTHEALTH],
      [BATSTAT |-> BATTSTATUS, BATVOLT |-> BATTVOLTAGE,
       BATCUR |-> Path(<<"sys", "class", "power_supply", "battery", "charge_now">>),
       BATCAP |-> BATTCAPACITY, BATHEAL |-> BATTHEALTH],
      NoBattConfig }

\* file contents: a word, an integer, a number with fraction and exponent
\* (3000001, which the voltage scaling does not take to the nearest float64 of
\* 3.000001), an infinity, a number out of range and the empty file
FileTexts ==
    { <<"Charging", "\n">>,
      <<"8", "7", "\n">>,
      <<"3", ".", "0", "0", "0", "0", "0", "1", "e", "6", "\n">>,
      <<"i", "n", "f">>,
      <<"1", "e", "4", "0", "0", "\n">>,
      <<>> }

Label == "Characteristic value/descriptor"

\* tokens of a command output: valid hex bytes, a two-byte token, a non-hex
\* token and an odd-length one
HexTokens ==
    { <<"0", "0">>, <<"3", "f">>, <<"8", "0">>, <<"0", "1", "F", "F">>,
      <<"z", "z">>, <<"f">> }

RECURSIVE Join(_, _)
Join(toks, sep) ==
    IF toks = <<>> THEN <<>> ELSE <<sep>> \o toks[1] \o Join(Tail(toks), sep)

TokenLists(n) == UNION {[1..k -> HexTokens] : k \in 0..n}

\* outputs in four shapes: "label: toks \n", "label toks \n" (no colon),
\* "label: toks :\n" (a second colon) and "label:\ftoks\v\n" (white space
\* other than the blank)
Outputs(n) ==
    UNION { { <<Label, ":">> \o Join(toks, " ") \o <<" ", "\n">>,
              <<Label>> \o Join(toks, " ") \o <<" ", "\n">>,
              <<Label, ":">> \o Join(toks, " ") \o <<" ", ":", "\n">>,
              <<Label, ":">> \o Join(toks, "\f") \o <<VT, "\n">> }
            : toks \in TokenLists(n) }

SampleOutputs ==
    { <<>>,
      <<"c", "o", "n", "n", "e", "c", "t", " ", "e", "r", "r", "o", "r", "\n">>,
      <<Label, ":", " ", "0", "0", " ", "0", "0", " ", "8", "0", " ", "3", "f", " ", "\n">>,
      <<Label, ":", " ", "0", "0", " ", "8", "0", " ", "\n">>,
      <<Label, ":", " ", "0", "0", "\t", "0", "0", NBSP, "8", "0", "\f", "3", "f", VT,
        "0", "1", "\n">>,
      <<Label, ":", " ", "0", "0", " ", "z", "z", "\n">> }

----------------------------------------------------------------------------
(* Initial states *)

Fresh ==
    /\ pc = "idle"
    /\ cycles = 0
    /\ built_cmd = <<>>
    /\ wg = 0
    /\ doneCalls = 0
    /\ ctxErr = "nil"
    /\ child = "none"
    /\ out = NilBytes
    /\ err = NoErr
    /\ k30 = NilBytes
    /\ k30err = NoErr
    /\ i = 1
    /\ metrics = EmptyMap
    /\ s = <<>>
    /\ stat = <<>>
    /\ accCalls = 0
    /\ accFields = <<>>
    /\ ret = "none"

\* inputs.Add(..., func() telegraf.Input { return &K30{} / &Batt{} }) and the
\* toml values loaded into the struct
Init ==
    /\ collector \in {"k30_reader", "pine_64"}
    /\ config \in K30Configs
    /\ ns = config
    /\ batt \in BattConfigs
    /\ (collector = "k30_reader" => batt = NoBattConfig)
    /\ (collector = "pine_64" => config = [f \in K30Fields |-> ""])
    /\ env = [name \in EnvNames |-> ""]
    /\ Fresh

----------------------------------------------------------------------------
(* Actions *)

\* os.Setenv between two cycles: a variable is set, changed or cleared
SetEnv ==
    /\ pc = "idle"
    /\ \E name \in EnvNames :
           \E val \in {"", EnvValue(name)} :
               /\ env[name] # val
               /\ env' = [env EXCEPT ![name] = val]
    /\ UNCHANGED <<collector, config, ns, batt, pc, cycles, accCalls, accFields,
                   ret>>
    /\ UNCHANGED k30vars
    /\ UNCHANGED battvars

\* the AddFields calls and the return value of a Gather that ends
Finish(r) ==
    /\ accCalls' = accCalls + Len(r.calls)
    /\ accFields' = IF r.calls = <<>> THEN accFields ELSE r.calls[Len(r.calls)]
    /\ ret' = r.ret
    /\ pc' = "idle"

\* K30.Gather up to the start of the child process in exe_cmd: loadPath,
\* wg.Add(1), built_cmd, context.WithTimeout, Output() starting the command
\* (which may fail to start: Output() then returns at once).  built_cmd
\* always holds the pieces "-b" and "--handle=", so strings.Fields(cmd) is
\* never empty and parts[0] exists; the split itself is not modelled, the
\* child's behaviour being any of ProcExit and ProcKilled whatever the command
K30GatherBegin ==
    /\ pc = "idle"
    /\ collector = "k30_reader"
    /\ cycles < MaxCycles
    /\ cycles' = cycles + 1
    /\ ns' = loadPath(ns)
    /\ built_cmd' = BuildCmd(ns')
    /\ wg' = 1
    /\ doneCalls' = 0
    /\ ctxErr' = "nil"
    /\ k30' = NilBytes
    /\ k30err' = NoErr
    /\ accCalls' = 0
    /\ accFields' = <<>>
    /\ ret' = "none"
    /\ \/ /\ child' = "running"
          /\ out' = NilBytes
          /\ err' = NoErr
          /\ pc' = "exe_cmd"
       \/ /\ child' = "none"
          /\ out' = NilBytes
          /\ err' = "exec: not found"
          /\ pc' = "waited"
    /\ UNCHANGED <<collector, config, batt, env>>
    /\ UNCHANGED battvars

\* the child exits by itself, with status 0 or not, having written stdout;
\* Output() returns
ProcExit ==
    /\ pc = "exe_cmd"
    /\ child = "running"
    /\ \E o \in SampleOutputs, e \in {NoErr, "exit status 1"} :
           /\ out' = o
           /\ err' = e
    /\ child' = "exited"
    /\ pc' = "waited"
    /\ UNCHANGED <<collector, config, ns, batt, env, cycles, built_cmd, wg,
                   doneCalls, ctxErr, k30, k30err, accCalls, accFields, ret>>
    /\ UNCHANGED battvars

\* the 10 s timer of context.WithTimeout fires; it runs until the deferred
\* cancel(), that is while exe_cmd has not returned
DeadlineFire ==
    /\ pc \in {"exe_cmd", "waited"}
    /\ ctxErr = "nil"
    /\ ctxErr' = "DeadlineExceeded"
    /\ UNCHANGED <<collector, config, ns, batt, env, pc, cycles, built_cmd, wg,
                   doneCalls, child, out, err, k30, k30err, accCalls, accFields,
                   ret>>
    /\ UNCHANGED battvars

\* exec.CommandContext kills the child once ctx is done; Output() returns what
\* stdout it had captured and the error of the killed process
ProcKilled ==
    /\ pc = "exe_cmd"
    /\ child = "running"
    /\ ctxErr = "DeadlineExceeded"
    /\ \E o \in {NilBytes, <<Label, ":", " ", "0", "0">>} : out' = o
    /\ err' = "signal: killed"
    /\ child' = "exited"
    /\ pc' = "waited"
    /\ UNCHANGED <<collector, config, ns, batt, env, cycles, built_cmd, wg,
                   doneCalls, ctxErr, k30, k30err, accCalls, accFields, ret>>
    /\ UNCHANGED battvars

\* exe_cmd from the ctx.Err() check to its return, the deferred cancel()
\* included
ExeCmdReturn ==
    /\ pc = "waited"
    /\ LET r == exe_cmd(ctxErr, out, err)
       IN /\ k30' = r.out
          /\ k30err' = r.err
          /\ wg' = wg - r.done
          /\ doneCalls' = doneCalls + r.done
    /\ ctxErr' = IF ctxErr = "nil" THEN "Canceled" ELSE ctxErr
    /\ pc' = "exe_cmd_returned"
    /\ UNCHANGED <<collector, config, ns, batt, env, cycles, built_cmd, child,
                   out, err, accCalls, accFields, ret>>
    /\ UNCHANGED battvars

\* K30.Gather after exe_cmd, returning (an error or nil)
K30GatherReturn ==
    /\ pc = "exe_cmd_returned"
    /\ LET r == K30GatherRest(k30, k30err)
       IN /\ ~r.panic
          /\ Finish(r)
    /\ UNCHANGED <<collector, config, ns, batt, env, cycles>>
    /\ UNCHANGED k30vars
    /\ UNCHANGED battvars

\* K30.Gather after exe_cmd, panicking in gatherk30: Gather does not return
K30GatherPanic ==
    /\ pc = "exe_cmd_returned"
    /\ K30GatherRest(k30, k30err).panic
    /\ pc' = "panicked"
    /\ UNCHANGED <<collector, config, ns, batt, env, cycles, accCalls, accFields,
                   ret>>
    /\ UNCHANGED k30vars
    /\ UNCHANGED battvars

\* Batt.Gather up to the loop: the maps are made (loadPath is not called)
BattGatherBegin ==
    /\ pc = "idle"
    /\ collector = "pine_64"
    /\ cycles < MaxCycles
    /\ cycles' = cycles + 1
    /\ i' = 1
    /\ metrics' = EmptyMap
    /\ s' = <<>>
    /\ stat' = <<>>
    /\ accCalls' = 0
    /\ accFields' = <<>>
    /\ ret' = "none"
    /\ pc' = "batt_loop"
    /\ UNCHANGED <<collector, config, ns, batt, env>>
    /\ UNCHANGED k30vars

\* a pass of the loop whose ioutil.ReadFile fails: return err
BattReadFail ==
    /\ pc = "batt_loop"
    /\ i <= Len(BattFields)
    /\ Finish(BattAbort(metrics, "open: no such file or directory"))
    /\ UNCHANGED <<collector, config, ns, batt, env, cycles, i, metrics, s, stat>>
    /\ UNCHANGED k30vars

\* a pass of the loop that reads the file and stores its field
BattStore ==
    /\ pc = "batt_loop"
    /\ i <= Len(BattFields)
    /\ batt[BattFields[i]] # <<>>
    /\ \E b \in FileTexts :
           LET r == BattIteration(metrics, batt[BattFields[i]], b)
           IN /\ r.err = NoErr
              /\ s' = b
              /\ stat' = r.stat
              /\ metrics' = r.metrics
    /\ i' = i + 1
    /\ UNCHANGED <<collector, config, ns, batt, env, pc, cycles, accCalls,
                   accFields, ret>>
    /\ UNCHANGED k30vars

\* a pass of the loop that reads the file and fails to parse it: return err
BattParseFail ==
    /\ pc = "batt_loop"
    /\ i <= Len(BattFields)
    /\ batt[BattFields[i]] # <<>>
    /\ \E b \in FileTexts :
           LET r == BattIteration(metrics, batt[BattFields[i]], b)
           IN /\ r.err # NoErr
              /\ s' = b
              /\ stat' = r.stat
              /\ Finish(BattAbort(metrics, r.err))
    /\ UNCHANGED <<collector, config, ns, batt, env, cycles, i, metrics>>
    /\ UNCHANGED k30vars

\* Batt.Gather after the loop: tags, acc.AddFields, return nil
BattGatherReturn ==
    /\ pc = "batt_loop"
    /\ i > Len(BattFields)
    /\ Finish(BattFinish(metrics))
    /\ UNCHANGED <<collector, config, ns, batt, env, cycles, i, metrics, s, stat>>
    /\ UNCHANGED k30vars

Next ==
    \/ SetEnv
    \/ K30GatherBegin
    \/ ProcExit
    \/ DeadlineFire
    \/ ProcKilled
    \/ ExeCmdReturn
    \/ K30GatherReturn
    \/ K30GatherPanic
    \/ BattGatherBegin
    \/ BattReadFail
    \/ BattStore
    \/ BattParseFail
    \/ BattGatherReturn

Spec == Init /\ [][Next]_vars

----------------------------------------------------------------------------
(* gatherk30 as a function of the command output: exe_cmd has returned      *)
(* (data, nil) for some output, and K30.Gather goes on                      *)

InitDecode ==
    /\ collector = "k30_reader"
    /\ config = [f \in K30Fields |-> ""]
    /\ env = [name \in EnvNames |-> ""]
    /\ ns = loadPath(config)
    /\ batt = NoBattConfig
    /\ pc = "exe_cmd_returned"
    /\ cycles = 1
    /\ built_cmd = BuildCmd(ns)
    /\ wg = 0
    /\ doneCalls = 1
    /\ ctxErr = "Canceled"
    /\ child = "exited"
    /\ out \in Outputs(MaxTokens)
    /\ err = NoErr
    /\ k30 = out
    /\ k30err = NoErr
    /\ i = 1
    /\ metrics = EmptyMap
    /\ s = <<>>
    /\ stat = <<>>
    /\ accCalls = 0
    /\ accFields = <<>>
    /\ ret = "none"

NextDecode ==
    \/ K30GatherReturn
    \/ K30GatherPanic

SpecDecode == InitDecode /\ [][NextDecode]_vars

----------------------------------------------------------------------------
(* Properties *)

IsError(r) == r \notin {"none", NoErr}

\* K30.Gather has run gatherk30 on k30: it panicked, or returned after it
K30Decoded ==
    /\ collector = "k30_reader"
    /\ \/ pc = "panicked"
       \/ pc = "idle" /\ ret # "none" /\ k30err = NoErr

HasColon(data) == \E k \in DOMAIN data : data[k] = colonByte

\* the text after the first colon
AfterColon(data) ==
    LET k == CHOOSE j \in DOMAIN data :
                 data[j] = colonByte /\ \A h \in 1..(j - 1) : data[h] # colonByte
    IN SubSeq(data, k + 1, Len(data))

TokensAfterColon(data) == Fields(AfterColon(data))

ValidHex(tok) == ~HexDecodeString(tok).err

FirstByte(tok) == HexDecodeString(tok).data[1]

\* C1: when the deadline is seen exceeded as exe_cmd finishes, the call
\* returns no output bytes and a non-nil error, and the child is not running
C1_TimeoutReturnsError ==
    (pc = "exe_cmd_returned" /\ ctxErr = "DeadlineExceeded")
        => (k30 = NilBytes /\ k30err # NoErr /\ child # "running")

\* C2: on an output without a colon gatherk30 returns a decode error to its
\* caller, does not panic and hands no field to the accumulator
C2_NoColonIsDecodeError ==
    (K30Decoded /\ ~HasColon(k30))
        => (pc = "idle" /\ IsError(ret) /\ accCalls = 0)

\* C3: on an output with fewer than 4 tokens after the colon, or with a
\* token that is not valid hex, gatherk30 returns a decode error: no co2
\* field from a partly filled buffer, no panic
C3_ShortOrBadIsDecodeError ==
    (K30Decoded /\ HasColon(k30)
       /\ (Len(TokensAfterColon(k30)) < 4
             \/ \E x \in DOMAIN TokensAfterColon(k30) :
                    ~ValidHex(TokensAfterColon(k30)[x])))
        => (pc = "idle" /\ IsError(ret) /\ accCalls = 0)

\* C4: on an output whose text after the first colon starts with 4 valid hex
\* tokens, gatherk30 emits exactly the field co2 with the pattern
\* byte(H0) + 256*byte(H1) + 65536*byte(H2) + 16777216*byte(H3), whatever
\* tokens follow the fourth
C4_FourTokensDecode ==
    (K30Decoded /\ HasColon(k30)
       /\ Len(TokensAfterColon(k30)) >= 4
       /\ \A x \in 1..4 : ValidHex(TokensAfterColon(k30)[x]))
        => /\ pc = "idle"
           /\ ret = NoErr
           /\ accCalls = 1
           /\ DOMAIN accFields.fields = {"co2"}
           /\ LET H == TokensAfterColon(k30)
              IN accFields.fields["co2"] =
                     [lo |-> FirstByte(H[1]) + 256 * FirstByte(H[2]),
                      hi |-> FirstByte(H[3]) + 256 * FirstByte(H[4])]

\* C5: AddFields is called at most once in a cycle and only in a cycle that
\* returns nil; a cycle whose command, file read or parse fails returns that
\* error and has handed nothing, not even the fields gathered so far
C5_AllOrNothing ==
    /\ accCalls <= 1
    /\ accCalls = 1 => (pc = "idle" /\ ret = NoErr)
    /\ pc = "panicked" => accCalls = 0
    /\ (pc = "idle" /\ IsError(ret)) => (accCalls = 0 /\ accFields = <<>>)
    /\ (pc = "idle" /\ collector = "k30_reader" /\ ret # "none" /\ k30err # NoErr)
           => ret = k30err
    /\ (pc = "idle" /\ collector = "pine_64" /\ ret # "none"
          /\ i <= Len(BattFields))
           => IsError(ret)
    /\ (pc = "idle" /\ ret \in {"strconv.ParseFloat: invalid syntax",
                                 "strconv.ParseFloat: value out of range"})
           => (ParseFloat(Trim(s, "\n")).err = ret
                 /\ stat \notin {<<"status">>, <<"health">>})

\* a battery cycle that failed to parse a later file, with fields of earlier
\* files already in the map, has handed nothing to the accumulator
C5_Witness ==
    /\ collector = "pine_64"
    /\ pc = "idle"
    /\ ret = "strconv.ParseFloat: invalid syntax"
    /\ i >= 3
    /\ DOMAIN metrics # {}
    /\ accCalls = 0

DefaultOf(f) ==
    CASE f = "CMD" -> GATTTOOL
      [] f = "ADDR" -> MACADDR
      [] f = "HANDLE" -> VARHANDLE
      [] f = "FLAGS" -> GATTFLAGS

BattDefaultOf(f) ==
    CASE f = "BATSTAT" -> BATTSTATUS
      [] f = "BATVOLT" -> BATTVOLTAGE
      [] f = "BATCUR" -> BATTCURRENT
      [] f = "BATCAP" -> BATTCAPACITY
      [] f = "BATHEAL" -> BATTHEALTH

\* the environment variable names of pine_64.go (BATT_STATUS .. BATT_HEALTH)
BattEnvOf(f) ==
    CASE f = "BATSTAT" -> "GATTTOOL"
      [] f = "BATVOLT" -> "MACADDR"
      [] f = "BATCUR" -> "VAR_HANDLE"
      [] f = "BATCAP" -> "GATTFLAGS"
      [] f = "BATHEAL" -> "BATTHEALTH"

\* resolve(configValue, envName, builtinDefault) as the claim states it
Resolve(configValue, envValue, builtinDefault) ==
    IF configValue # "" THEN configValue
    ELSE IF envValue # "" THEN envValue
    ELSE builtinDefault

\* C6: each parameter used in a cycle is the explicit configuration value if
\* non-empty, else the environment variable's value if non-empty, else the
\* compiled-in default.  (For a battery path the case stated is the one of
\* an unset environment variable: the configured path if there is one, else
\* the default path.)
C6_ParametersResolved ==
    /\ pc \in {"exe_cmd", "waited", "exe_cmd_returned"}
           => \A f \in K30Fields :
                  ns[f] = Resolve(config[f], Getenv(EnvOf(f)), DefaultOf(f))
    /\ (pc = "batt_loop" /\ i <= Len(BattFields))
           => LET f == BattFields[i]
              IN Getenv(BattEnvOf(f)) = ""
                     => batt[f] = (IF batt[f] # <<>> THEN batt[f]
                                   ELSE BattDefaultOf(f))

\* what the claim says is stored for a file with final segment st and content
\* text
ExpectedValue(st, text) ==
    IF st = <<"status">> \/ st = <<"health">>
    THEN StrVal(TrimRight(text, "\n"))
    ELSE LET v == ParseFloat(TrimRight(text, "\n")).v
         IN NumVal(IF st = <<"voltage_now">> THEN ScaleVoltage(v) ELSE v)

\* C7: after a pass of the loop, the value stored under the file's final path
\* segment is the trimmed text for status and health, and else the parsed
\* number, scaled by (v/10000)*0.01 exactly for voltage_now
C7_StoredValue ==
    (pc = "batt_loop" /\ i > 1)
        => (stat \in DOMAIN metrics /\ metrics[stat] = ExpectedValue(stat, s))

\* C8: the field names handed to the accumulator are within the collector's
\* closed set, whatever paths are configured
C8_ClosedFieldNames ==
    accCalls > 0
        => IF collector = "k30_reader"
           THEN DOMAIN accFields.fields \subseteq {"co2"}
           ELSE DOMAIN accFields.fields \subseteq
                    {<<"status">>, <<"voltage_now">>, <<"current_now">>,
                     <<"capacity">>, <<"health">>}

\* C9: a cycle uses the environment as it is at that cycle for every
\* parameter without an explicit configuration value: nothing resolved in an
\* earlier cycle is carried over
C9_FreshEachCycle ==
    pc \in {"exe_cmd", "waited", "exe_cmd_returned"}
        => \A f \in K30Fields :
               (config[f] = "" /\ Getenv(EnvOf(f)) # "") => ns[f] = Getenv(EnvOf(f))

\* C10: an exe_cmd call that returns has called wg.Done exactly once; with
\* the wg.Add(1) of Gather the counter goes from 1 to 0, never below
C10_DoneExactlyOnce ==
    /\ wg >= 0
    /\ pc \in {"exe_cmd", "waited"} => (doneCalls = 0 /\ wg = 1)
    /\ pc = "exe_cmd_returned" => (doneCalls = 1 /\ wg = 0)

\* exe_cmd has returned on the timeout path
C10_Witness ==
    /\ pc = "exe_cmd_returned"
    /\ ctxErr = "DeadlineExceeded"
    /\ k30err = "signal: killed"
    /\ doneCalls = 1

====
